---- MODULE Spec2Model ----
(***************************************************************************)
(* Model of the projection engine of cashflow_streamlit.py: the sidebar    *)
(* inputs (lines 14-76), apply_return (lines 80-84) and the per-year       *)
(* projection loop (lines 88-168).                                         *)
(*                                                                         *)
(* Amounts and rates are Python floats in the source.  Here they are exact *)
(* rationals [n |-> numerator, d |-> denominator] in lowest terms.  Every  *)
(* input below is a small dyadic rational (an integer, a half or a         *)
(* quarter) and a monthly rate is a multiple of 12, so that on these       *)
(* inputs every float operation of the source is exact and the rational    *)
(* result is the float result.                                             *)
(***************************************************************************)
EXTENDS Integers, Sequences, FiniteSets, TLC

\* ------------------------------------------------------------------ bounds
MaxYears == 3
NumSlots == 2

\* --------------------------------------------------- rational arithmetic
Abs(x) == IF x < 0 THEN -x ELSE x

RECURSIVE GCD(_, _)
GCD(a, b) == IF b = 0 THEN a ELSE GCD(b, a % b)

Norm(n, d) ==
    LET g == GCD(Abs(n), d)
    IN  [n |-> n \div g, d |-> d \div g]

R(n, d) == Norm(n, d)
Zero == R(0, 1)
One == R(1, 1)

RAdd(a, b) == Norm(a.n * b.d + b.n * a.d, a.d * b.d)
RSub(a, b) == Norm(a.n * b.d - b.n * a.d, a.d * b.d)
RMul(a, b) == Norm(a.n * b.n, a.d * b.d)
RDivInt(a, k) == Norm(a.n, a.d * k)
RLeq(a, b) == a.n * b.d <= b.n * a.d
RLt(a, b) == a.n * b.d < b.n * a.d

RECURSIVE RPow(_, _)
RPow(x, k) == IF k = 0 THEN One ELSE RMul(x, RPow(x, k - 1))

RECURSIVE RSum(_)
RSum(s) == IF s = <<>> THEN Zero ELSE RAdd(RSum(SubSeq(s, 1, Len(s) - 1)), s[Len(s)])

\* ------------------------------------------------------------------ state
VARIABLES
    years, start_year, inflation, compounding,
    p1_salary, p1_growth, p1_other,
    p2_salary, p2_growth, p2_other,
    monthly_expenses, annual_irregular, expense_growth_override, expense_growth,
    salary_tax_rate, other_income_tax_rate,
    inv_slots, start_savings, rebalancing,
    pc, years_list, rows, inv_balances, cash, yi, i,
    gross_income, salary_tax, other_income_tax, total_expenses, total_contrib,
    investment_income_before_tax, investment_tax_paid

inputs == <<years, start_year, inflation, compounding,
            p1_salary, p1_growth, p1_other, p2_salary, p2_growth, p2_other,
            monthly_expenses, annual_irregular, expense_growth_override,
            expense_growth, salary_tax_rate, other_income_tax_rate,
            inv_slots, start_savings, rebalancing>>

yearvars == <<gross_income, salary_tax, other_income_tax, total_expenses, total_contrib>>

vars == <<inputs, pc, years_list, rows, inv_balances, cash, yi, i, yearvars,
          investment_income_before_tax, investment_tax_paid>>

\* ------------------------------------------------------- apply_return
\* apply_return with the "- 1" of the monthly branch left out.
apply_return_factor(balance, rate, freq) ==
    IF freq = "monthly"
    THEN RMul(balance, RPow(RAdd(One, RDivInt(rate, 12)), 12))
    ELSE RMul(balance, rate)

apply_return(balance, rate, freq) ==
    IF freq = "monthly"
    THEN RMul(balance, RSub(RPow(RAdd(One, RDivInt(rate, 12)), 12), One))
    ELSE RMul(balance, rate)

\* ------------------------------------------- the year's income and costs
\* Person 1's salary without its growth.
P1SalaryFlat(y) == p1_salary

P1Salary(y) == RMul(p1_salary, RPow(RAdd(One, p1_growth), y))
P2Salary(y) == RMul(p2_salary, RPow(RAdd(One, p2_growth), y))
P1Other(y) == RMul(p1_other, RPow(RAdd(One, p1_growth), y))
P2Other(y) == RMul(p2_other, RPow(RAdd(One, p2_growth), y))

GrossIncome(y) == RAdd(RAdd(P1Salary(y), P1Other(y)), RAdd(P2Salary(y), P2Other(y)))

SalaryTax(y) == RAdd(RMul(P1Salary(y), salary_tax_rate), RMul(P2Salary(y), salary_tax_rate))

OtherIncome(y) == RAdd(P1Other(y), P2Other(y))

OtherIncomeTax(y) == RMul(OtherIncome(y), other_income_tax_rate)

TotalExpenses(y) ==
    LET monthly == RMul(monthly_expenses, RPow(RAdd(One, expense_growth), y))
        annual == RMul(annual_irregular, RPow(RAdd(One, expense_growth), y))
    IN  RAdd(RMul(monthly, R(12, 1)), annual)

\* Contributions that grow with inflation instead of staying nominal.
TotalContribGrowing(slots, y) ==
    RSum([k \in 1..Len(slots) |-> RMul(slots[k].annual_contrib, RPow(RAdd(One, inflation), y))])

TotalContrib(slots, y) ==
    RSum([k \in 1..Len(slots) |-> RMul(slots[k].annual_contrib, RPow(RAdd(One, Zero), y))])

\* ------------------------------------ steps on an engine state
\* es = [cash, bal, inc, tax]: cash, inv_balances and the year's running
\* totals investment_income_before_tax and investment_tax_paid.
Contribute(es, slots, tc) ==
    [es EXCEPT !.cash = RSub(es.cash, tc),
               !.bal = [k \in 1..Len(slots) |-> RAdd(es.bal[k], slots[k].annual_contrib)]]

\* The gain taken on the balance plus the year's running gain total.
AccountGainOnRunningTotal(es, slots, k, freq) ==
    apply_return(RAdd(es.bal[k], es.inc), slots[k].ret, freq)

AccountGain(es, slots, k, freq) == apply_return(es.bal[k], slots[k].ret, freq)

\* The net gain with its sign reversed (tax - gain).
AccountStepNetReversed(es, slots, k, freq) ==
    LET gain == apply_return(es.bal[k], slots[k].ret, freq)
        tax == RMul(gain, slots[k].tax)
        net == RSub(tax, gain)
    IN  [cash |-> IF slots[k].reinvest THEN es.cash ELSE RAdd(es.cash, net),
         bal |-> IF slots[k].reinvest THEN [es.bal EXCEPT ![k] = RAdd(es.bal[k], net)]
                                      ELSE es.bal,
         inc |-> RAdd(es.inc, gain),
         tax |-> RAdd(es.tax, tax)]

\* The net gain added to the account whatever the reinvest flag.
AccountStepAlwaysReinvest(es, slots, k, freq) ==
    LET gain == apply_return(es.bal[k], slots[k].ret, freq)
        tax == RMul(gain, slots[k].tax)
        net == RSub(gain, tax)
    IN  [cash |-> es.cash,
         bal |-> [es.bal EXCEPT ![k] = RAdd(es.bal[k], net)],
         inc |-> RAdd(es.inc, gain),
         tax |-> RAdd(es.tax, tax)]

AccountStep(es, slots, k, freq) ==
    LET gain == AccountGain(es, slots, k, freq)
        tax == RMul(gain, slots[k].tax)
        net == RSub(gain, tax)
    IN  [cash |-> IF slots[k].reinvest THEN es.cash ELSE RAdd(es.cash, net),
         bal |-> IF slots[k].reinvest THEN [es.bal EXCEPT ![k] = RAdd(es.bal[k], net)]
                                      ELSE es.bal,
         inc |-> RAdd(es.inc, gain),
         tax |-> RAdd(es.tax, tax)]

YearIncome(y) ==
    [gross_income |-> GrossIncome(y),
     salary_tax |-> SalaryTax(y),
     other_income_tax |-> OtherIncomeTax(y),
     total_expenses |-> TotalExpenses(y)]

\* The row's net worth taken before the net savings reach cash.
SettleStaleNetWorth(es, yr, label) ==
    LET taxes == RAdd(RAdd(yr.salary_tax, yr.other_income_tax), es.tax)
        net_savings == RSub(RSub(yr.gross_income, taxes), yr.total_expenses)
        newcash == RAdd(es.cash, net_savings)
        total_investment_value == RSum(es.bal)
        net_worth == RAdd(es.cash, total_investment_value)
    IN  [cash |-> newcash,
         row |-> [year |-> label,
                  gross_income |-> yr.gross_income,
                  salary_tax |-> yr.salary_tax,
                  other_income_tax |-> yr.other_income_tax,
                  investment_gain_before_tax |-> es.inc,
                  investment_tax_paid |-> es.tax,
                  total_taxes |-> taxes,
                  total_expenses |-> yr.total_expenses,
                  net_savings |-> net_savings,
                  cash |-> newcash,
                  investment_value |-> total_investment_value,
                  net_worth |-> net_worth]]

\* The investment tax, already taken out of the net gain, left out of taxes.
SettleInvestmentTaxOnce(es, yr, label) ==
    LET taxes == RAdd(yr.salary_tax, yr.other_income_tax)
        net_savings == RSub(RSub(yr.gross_income, taxes), yr.total_expenses)
        newcash == RAdd(es.cash, net_savings)
        total_investment_value == RSum(es.bal)
        net_worth == RAdd(newcash, total_investment_value)
    IN  [cash |-> newcash,
         row |-> [year |-> label,
                  gross_income |-> yr.gross_income,
                  salary_tax |-> yr.salary_tax,
                  other_income_tax |-> yr.other_income_tax,
                  investment_gain_before_tax |-> es.inc,
                  investment_tax_paid |-> es.tax,
                  total_taxes |-> taxes,
                  total_expenses |-> yr.total_expenses,
                  net_savings |-> net_savings,
                  cash |-> newcash,
                  investment_value |-> total_investment_value,
                  net_worth |-> net_worth]]

Settle(es, yr, label) ==
    LET taxes == RAdd(RAdd(yr.salary_tax, yr.other_income_tax), es.tax)
        net_savings == RSub(RSub(yr.gross_income, taxes), yr.total_expenses)
        newcash == RAdd(es.cash, net_savings)
        total_investment_value == RSum(es.bal)
        net_worth == RAdd(newcash, total_investment_value)
    IN  [cash |-> newcash,
         row |-> [year |-> label,
                  gross_income |-> yr.gross_income,
                  salary_tax |-> yr.salary_tax,
                  other_income_tax |-> yr.other_income_tax,
                  investment_gain_before_tax |-> es.inc,
                  investment_tax_paid |-> es.tax,
                  total_taxes |-> taxes,
                  total_expenses |-> yr.total_expenses,
                  net_savings |-> net_savings,
                  cash |-> newcash,
                  investment_value |-> total_investment_value,
                  net_worth |-> net_worth]]

\* ----------------------------------------------------------------- inputs
Half == R(1, 2)
Quarter == R(1, 4)

\* A monthly rate is a multiple of 12, so that rate / 12 is an integer.
PosRate(freq) == IF freq = "monthly" THEN R(12, 1) ELSE Half
NegRate(freq) == IF freq = "monthly" THEN R(-12, 1) ELSE R(-1, 2)
Rates(freq) == {NegRate(freq), Zero, PosRate(freq)}

Slot(p, c, r, t, re) ==
    [principal |-> p, annual_contrib |-> c, ret |-> r, tax |-> t, reinvest |-> re]

\* The first slot ranges over every combination; the further slots over a
\* few accounts, among them the untouched slot (all zero, not reinvested).
SlotProfiles(k, freq) ==
    IF k = 1
    THEN {Slot(R(8, 1), c, r, t, re) :
            c \in {Zero, R(4, 1)}, r \in Rates(freq), t \in {Zero, Half}, re \in BOOLEAN}
    ELSE {Slot(R(4, 1), R(2, 1), PosRate(freq), Half, TRUE),
          Slot(R(4, 1), R(2, 1), PosRate(freq), Half, FALSE),
          Slot(R(4, 1), Zero, Zero, Zero, TRUE),
          Slot(Zero, Zero, Zero, Zero, FALSE)}

RECURSIVE SlotListsOf(_, _)
SlotListsOf(n, freq) ==
    IF n = 0 THEN {<<>>}
    ELSE {Append(s, p) : s \in SlotListsOf(n - 1, freq), p \in SlotProfiles(n, freq)}

SlotLists(freq) == SlotListsOf(NumSlots, freq)

\* A reinvested monthly rate of 12 multiplies the balance by up to 2^12 a
\* year: such a run is kept to the horizon whose balances fit in 31 bits.
MonthlyGrowthYears == 31 \div 12

InRange(n, freq, slots) ==
    (freq = "monthly" /\ n > MonthlyGrowthYears) =>
        \A k \in 1..Len(slots) : ~(slots[k].reinvest /\ RLt(Zero, slots[k].ret))

EngineInit ==
    /\ pc = "start"
    /\ years_list = <<>>
    /\ rows = <<>>
    /\ inv_balances = <<>>
    /\ cash = Zero
    /\ yi = 0
    /\ i = 0
    /\ gross_income = Zero
    /\ salary_tax = Zero
    /\ other_income_tax = Zero
    /\ total_expenses = Zero
    /\ total_contrib = Zero
    /\ investment_income_before_tax = Zero
    /\ investment_tax_paid = Zero

\* Settings every run draws: the horizon (a horizon of 0 or less included,
\* the engine being a function of its settings), the two modes, the rates.
SettingsInit ==
    /\ years \in (-1)..MaxYears
    /\ start_year = 2025
    /\ compounding \in {"annual", "monthly"}
    /\ rebalancing \in {"start_of_year", "end_of_year"}
    /\ inflation = Half
    /\ monthly_expenses = One
    /\ annual_irregular = R(2, 1)
    /\ salary_tax_rate = Quarter
    /\ other_income_tax_rate = Half

\* Inputs that vary the investment accounts, with one household.
InitAccounts ==
    /\ p1_salary = R(8, 1)
    /\ p1_growth = Half
    /\ p1_other = R(4, 1)
    /\ p2_salary = R(4, 1)
    /\ p2_growth = R(-1, 2)
    /\ p2_other = Zero
    /\ expense_growth_override = FALSE
    /\ start_savings = R(10, 1)
    /\ inv_slots \in SlotLists(compounding)

\* Inputs that vary the household, with one list of accounts.
InitHousehold ==
    /\ p1_salary \in {Zero, R(8, 1)}
    /\ p1_growth \in {R(-1, 2), Half}
    /\ p1_other \in {Zero, R(4, 1)}
    /\ p2_salary \in {Zero, R(4, 1)}
    /\ p2_growth \in {R(-1, 2), Quarter}
    /\ p2_other \in {Zero, R(2, 1)}
    /\ expense_growth_override \in BOOLEAN
    /\ start_savings \in {R(-4, 1), R(10, 1)}
    /\ inv_slots = [k \in 1..NumSlots |->
                      IF k = 1
                      THEN Slot(R(8, 1), R(4, 1), NegRate(compounding), Half, TRUE)
                      ELSE Slot(R(4, 1), R(2, 1), PosRate(compounding), Half, FALSE)]

Init ==
    /\ SettingsInit
    /\ (InitAccounts \/ InitHousehold)
    /\ expense_growth = (IF expense_growth_override THEN R(-1, 2) ELSE inflation)
    /\ InRange(years, compounding, inv_slots)
    /\ EngineInit

\* ------------------------------------------------------------- operations
Cur == [cash |-> cash, bal |-> inv_balances,
        inc |-> investment_income_before_tax, tax |-> investment_tax_paid]

\* Setup with a years_list one year too long.
SetupOneYearMore ==
    /\ pc = "start"
    /\ years_list' = [k \in 1..(IF years > 0 THEN years + 1 ELSE 0) |-> start_year + k - 1]
    /\ rows' = <<>>
    /\ inv_balances' = [k \in 1..Len(inv_slots) |-> inv_slots[k].principal]
    /\ cash' = start_savings
    /\ yi' = 0
    /\ pc' = "loop"
    /\ UNCHANGED <<inputs, i, yearvars, investment_income_before_tax, investment_tax_paid>>

\* lines 88-93: years_list, rows, inv_balances, cash
Setup ==
    /\ pc = "start"
    /\ years_list' = [k \in 1..(IF years > 0 THEN years ELSE 0) |-> start_year + k - 1]
    /\ rows' = <<>>
    /\ inv_balances' = [k \in 1..Len(inv_slots) |-> inv_slots[k].principal]
    /\ cash' = start_savings
    /\ yi' = 0
    /\ pc' = "loop"
    /\ UNCHANGED <<inputs, i, yearvars, investment_income_before_tax, investment_tax_paid>>

\* lines 95-111: the year's income, taxes on income, expenses, contributions
BeginYear ==
    /\ pc = "loop"
    /\ yi < Len(years_list)
    /\ gross_income' = YearIncome(yi).gross_income
    /\ salary_tax' = YearIncome(yi).salary_tax
    /\ other_income_tax' = YearIncome(yi).other_income_tax
    /\ total_expenses' = YearIncome(yi).total_expenses
    /\ total_contrib' = TotalContrib(inv_slots, yi)
    /\ pc' = "contrib_start"
    /\ UNCHANGED <<inputs, years_list, rows, inv_balances, cash, yi, i,
                   investment_income_before_tax, investment_tax_paid>>

\* lines 113-121: contributions at the start of the year, totals reset
ContribStart ==
    /\ pc = "contrib_start"
    /\ LET es == IF rebalancing = "start_of_year"
                 THEN Contribute(Cur, inv_slots, total_contrib) ELSE Cur
       IN  /\ cash' = es.cash
           /\ inv_balances' = es.bal
    /\ investment_income_before_tax' = Zero
    /\ investment_tax_paid' = Zero
    /\ i' = 1
    /\ pc' = "returns"
    /\ UNCHANGED <<inputs, years_list, rows, yi, yearvars>>

\* lines 122-136: one iteration of the returns loop, for account i
ApplyReturns ==
    /\ pc = "returns"
    /\ i <= Len(inv_slots)
    /\ LET es == AccountStep(Cur, inv_slots, i, compounding)
       IN  /\ cash' = es.cash
           /\ inv_balances' = es.bal
           /\ investment_income_before_tax' = es.inc
           /\ investment_tax_paid' = es.tax
    /\ i' = i + 1
    /\ UNCHANGED <<inputs, pc, years_list, rows, yi, yearvars>>

\* lines 138-142: contributions at the end of the year
ContribEnd ==
    /\ pc = "returns"
    /\ i > Len(inv_slots)
    /\ LET es == IF rebalancing = "end_of_year"
                 THEN Contribute(Cur, inv_slots, total_contrib) ELSE Cur
       IN  /\ cash' = es.cash
           /\ inv_balances' = es.bal
    /\ pc' = "settle"
    /\ UNCHANGED <<inputs, years_list, rows, yi, i, yearvars,
                   investment_income_before_tax, investment_tax_paid>>

\* lines 144-168: net savings into cash, the year's row
StoreRow ==
    /\ pc = "settle"
    /\ LET yr == [gross_income |-> gross_income, salary_tax |-> salary_tax,
                  other_income_tax |-> other_income_tax,
                  total_expenses |-> total_expenses]
           st == Settle(Cur, yr, years_list[yi + 1])
       IN  /\ cash' = st.cash
           /\ rows' = Append(rows, st.row)
    /\ yi' = yi + 1
    /\ pc' = "loop"
    /\ UNCHANGED <<inputs, years_list, inv_balances, i, yearvars,
                   investment_income_before_tax, investment_tax_paid>>

\* line 170-171: the loop is over, the rows become the results
Finish ==
    /\ pc = "loop"
    /\ yi >= Len(years_list)
    /\ pc' = "done"
    /\ UNCHANGED <<inputs, years_list, rows, inv_balances, cash, yi, i, yearvars,
                   investment_income_before_tax, investment_tax_paid>>

Next == Setup \/ BeginYear \/ ContribStart \/ ApplyReturns \/ ContribEnd \/ StoreRow \/ Finish

Spec == Init /\ [][Next]_vars

\* ----------------------------------------- the loop as a function of inputs
\* The returns loop of lines 122-136 over the accounts in the sequence order.
RECURSIVE ReturnsLoop(_, _, _, _, _)
ReturnsLoop(es, slots, freq, order, n) ==
    IF n = 0 THEN es
    ELSE AccountStep(ReturnsLoop(es, slots, freq, order, n - 1), slots, order[n], freq)

Identity(n) == [k \in 1..n |-> k]

\* One iteration of the projection loop, lines 95-168, for year index y.
YearStep(es, slots, y, timing, freq) ==
    LET tc == TotalContrib(slots, y)
        e1 == IF timing = "start_of_year" THEN Contribute(es, slots, tc) ELSE es
        e2 == [e1 EXCEPT !.inc = Zero, !.tax = Zero]
        e3 == ReturnsLoop(e2, slots, freq, Identity(Len(slots)), Len(slots))
        e4 == IF timing = "end_of_year" THEN Contribute(e3, slots, tc) ELSE e3
        st == Settle(e4, YearIncome(y), start_year + y)
    IN  [es |-> [e4 EXCEPT !.cash = st.cash], row |-> st.row]

Initial(slots) ==
    [cash |-> start_savings,
     bal |-> [k \in 1..Len(slots) |-> slots[k].principal],
     inc |-> Zero, tax |-> Zero]

\* The first n iterations of the loop, lines 88-168.
RECURSIVE Run(_, _, _, _)
Run(slots, timing, freq, n) ==
    IF n <= 0 THEN [es |-> Initial(slots), rows |-> <<>>]
    ELSE LET before == Run(slots, timing, freq, n - 1)
             step == YearStep(before.es, slots, n - 1, timing, freq)
         IN  [es |-> step.es, rows |-> Append(before.rows, step.row)]

\* ------------------------------------------------------------ properties
Principals == [k \in 1..Len(inv_slots) |-> inv_slots[k].principal]
Contributions == [k \in 1..Len(inv_slots) |-> inv_slots[k].annual_contrib]
Stored == pc \in {"loop", "done"} /\ rows # <<>>
Last == rows[Len(rows)]

\* C1: every emitted row has net_worth = cash + investment_value, and the
\* row just stored carries the cash balance and the sum of the account
\* balances of that same point, after contributions, returns and the
\* net-savings settlement of the year.
C1_NetWorthIdentity ==
    /\ \A k \in 1..Len(rows) :
          rows[k].net_worth = RAdd(rows[k].cash, rows[k].investment_value)
    /\ Stored => /\ Last.cash = cash
                 /\ Last.investment_value = RSum(inv_balances)
                 /\ Last.net_worth = RAdd(cash, RSum(inv_balances))

C1_Witness ==
    /\ pc = "done"
    /\ Len(rows) >= 2
    /\ compounding = "monthly"
    /\ rebalancing = "end_of_year"
    /\ \E k \in 1..Len(inv_slots) : RLt(inv_slots[k].ret, Zero) /\ ~inv_slots[k].reinvest
    /\ Last.net_savings # Zero

\* C2: a run with years = N >= 1 ends with exactly N rows, one per
\* iteration, labelled start_year, start_year + 1, ..., start_year + N - 1
\* in that order, and every iteration starts from the cash and the account
\* balances the previous one left.
C2_RowsPerYear ==
    /\ pc # "start" => Len(rows) = yi
    /\ \A k \in 1..Len(rows) : rows[k].year = start_year + k - 1
    /\ (pc = "done" /\ years >= 1) => Len(rows) = years
    /\ pc = "contrib_start" =>
          IF yi = 0
          THEN cash = start_savings /\ inv_balances = Principals
          ELSE cash = rows[yi].cash /\ RSum(inv_balances) = rows[yi].investment_value
    /\ pc = "contrib_start" =>
          LET before == Run(inv_slots, rebalancing, compounding, yi).es
          IN  cash = before.cash /\ inv_balances = before.bal

C2_Witness ==
    /\ pc = "done"
    /\ years >= 2
    /\ Len(rows) = years
    /\ rows[years].year = start_year + years - 1

YearZero(timing) == Run(inv_slots, timing, compounding, 1).es.bal

AfterYearZero == pc = "loop" /\ yi = 1

StartBalance == IF rebalancing = "start_of_year" THEN inv_balances
                ELSE YearZero("start_of_year")

EndBalance == IF rebalancing = "end_of_year" THEN inv_balances
              ELSE YearZero("end_of_year")

NetGainPerUnit(k) ==
    LET g == apply_return(One, inv_slots[k].ret, compounding)
    IN  RSub(g, RMul(g, inv_slots[k].tax))

\* C3 as stated: for every account with a non-zero contribution and a
\* non-zero return rate, the balance at the end of year 0 under
\* start_of_year is at least the balance under end_of_year.
C3_StartAtLeastEnd ==
    AfterYearZero =>
        LET sb == StartBalance
            eb == EndBalance
        IN  \A k \in 1..Len(inv_slots) :
                (inv_slots[k].annual_contrib # Zero /\ inv_slots[k].ret # Zero) =>
                    RLeq(eb[k], sb[k])

\* C3 amended: the gain net of tax on one unit of balance decides.  With a
\* positive contribution, start_of_year gives at least the end_of_year
\* balance of year 0 when the account is not reinvested (the two are equal)
\* or that net gain is >= 0, and strictly less when the account is
\* reinvested and that net gain is negative.  The balances compared are the
\* one the run reaches after its first year and the one the loop gives under
\* the other timing.
C3_StartAtLeastEndWhenGainNonNegative ==
    AfterYearZero =>
        LET sb == StartBalance
            eb == EndBalance
        IN  /\ inv_balances = YearZero(rebalancing)
            /\ \A k \in 1..Len(inv_slots) :
                  RLt(Zero, inv_slots[k].annual_contrib) =>
                      /\ ~inv_slots[k].reinvest => sb[k] = eb[k]
                      /\ (inv_slots[k].reinvest /\ RLeq(Zero, NetGainPerUnit(k))) =>
                            RLeq(eb[k], sb[k])
                      /\ (inv_slots[k].reinvest /\ RLt(NetGainPerUnit(k), Zero)) =>
                            RLt(sb[k], eb[k])

C3_Witness ==
    /\ AfterYearZero
    /\ rebalancing = "start_of_year"
    /\ \E k \in 1..Len(inv_slots) :
          /\ inv_slots[k].reinvest
          /\ RLt(Zero, inv_slots[k].annual_contrib)
          /\ RLt(Zero, NetGainPerUnit(k))
          /\ RLt(YearZero("end_of_year")[k], inv_balances[k])

C4_BalanceIsPrincipalPlusContributions ==
    (pc \in {"loop", "done"}) =>
        \A k \in 1..Len(inv_balances) :
            ~inv_slots[k].reinvest =>
                inv_balances[k] = RAdd(inv_slots[k].principal,
                                       RMul(R(yi, 1), inv_slots[k].annual_contrib))

C4_GainSweptToCash ==
    (pc = "returns" /\ i <= Len(inv_slots) /\ ~inv_slots[i].reinvest) =>
        LET gain == apply_return(inv_balances[i], inv_slots[i].ret, compounding)
        IN  /\ cash' = RAdd(cash, RSub(gain, RMul(gain, inv_slots[i].tax)))
            /\ inv_balances' = inv_balances

\* C4: an account that is not reinvested holds initialPrincipal plus one
\* contribution per completed year, under both timings and both
\* compounding modes, and the returns step of such an account leaves the
\* balances alone and adds gain - gain * tax to cash.
C4_NotReinvested == []C4_BalanceIsPrincipalPlusContributions /\ [][C4_GainSweptToCash]_vars

C4_Witness ==
    /\ pc = "done"
    /\ yi >= 2
    /\ \E k \in 1..Len(inv_slots) :
          /\ ~inv_slots[k].reinvest
          /\ inv_slots[k].annual_contrib # Zero
          /\ inv_slots[k].ret # Zero
          /\ inv_slots[k].tax # Zero
          /\ inv_balances[k] # inv_slots[k].principal

AllIdle == \A k \in 1..Len(inv_slots) :
              inv_slots[k].ret = Zero /\ inv_slots[k].annual_contrib = Zero

\* C5: when every account has return rate 0 and contribution 0, every
\* balance stays at its principal and every row has investment gain 0 and
\* investment tax 0, in both compounding modes.
C5_ZeroRateIdempotence ==
    (AllIdle /\ pc # "start") =>
        /\ inv_balances = Principals
        /\ \A k \in 1..Len(rows) :
              /\ rows[k].investment_gain_before_tax = Zero
              /\ rows[k].investment_tax_paid = Zero

C5_Witness ==
    /\ AllIdle
    /\ pc = "done"
    /\ Len(rows) >= 2
    /\ compounding = "monthly"
    /\ \A k \in 1..Len(inv_slots) : inv_slots[k].principal # Zero
    /\ \E k \in 1..Len(inv_slots) : inv_slots[k].tax # Zero /\ inv_slots[k].reinvest

Growing ==
    /\ RLt(Zero, p1_growth)
    /\ RLt(Zero, p2_growth)
    /\ p1_other = Zero
    /\ p2_other = Zero

Increasing ==
    \A k \in 1..(Len(rows) - 1) : RLt(rows[k].gross_income, rows[k + 1].gross_income)

\* C6 as stated: with both growth rates positive and no other income,
\* gross income strictly increases from each row to the next.
C6_IncomeStrictlyIncreases == Growing => Increasing

\* C6 amended: with both growth rates positive and no other income, gross
\* income strictly increases from each row to the next when at least one
\* salary is positive, and is 0 in every row when both salaries are 0.
C6_IncomeIncreasesWithASalary ==
    Growing =>
        /\ (RLt(Zero, p1_salary) \/ RLt(Zero, p2_salary)) => Increasing
        /\ (p1_salary = Zero /\ p2_salary = Zero) =>
              \A k \in 1..Len(rows) : rows[k].gross_income = Zero

C6_Witness ==
    /\ Growing
    /\ pc = "done"
    /\ Len(rows) >= 3
    /\ p1_salary = Zero
    /\ RLt(Zero, p2_salary)
    /\ RLt(rows[2].gross_income, rows[3].gross_income)

Orders(n) ==
    {f \in [1..n -> 1..n] : \A a, b \in 1..n : f[a] = f[b] => a = b}

Permuted(slots, f) == [k \in 1..Len(slots) |-> slots[f[k]]]

C8_RunOrderIndependent ==
    pc = "done" =>
        \A f \in Orders(Len(inv_slots)) :
            LET r == Run(Permuted(inv_slots, f), rebalancing, compounding, years)
            IN  /\ r.rows = rows
                /\ r.es.cash = cash
                /\ years >= 1 => r.es.bal = Permuted(inv_balances, f)

C8_LoopOrderIndependent ==
    (pc = "returns" /\ i = 1) =>
        \A f \in Orders(Len(inv_slots)) :
            ReturnsLoop(Cur, inv_slots, compounding, f, Len(inv_slots)) =
                ReturnsLoop(Cur, inv_slots, compounding,
                            Identity(Len(inv_slots)), Len(inv_slots))

Contributed ==
    /\ cash' = RSub(cash, RSum(Contributions))
    /\ inv_balances' = [k \in 1..Len(inv_slots) |->
                           RAdd(inv_balances[k], inv_slots[k].annual_contrib)]

Untouched == cash' = cash /\ inv_balances' = inv_balances

C9_Step ==
    /\ pc = "contrib_start" =>
          /\ total_contrib = RSum(Contributions)
          /\ IF rebalancing = "start_of_year" THEN Contributed ELSE Untouched
    /\ (pc = "returns" /\ i > Len(inv_slots)) =>
          /\ total_contrib = RSum(Contributions)
          /\ IF rebalancing = "end_of_year" THEN Contributed ELSE Untouched
    /\ (pc = "returns" /\ i <= Len(inv_slots)) =>
          /\ inv_balances[i] =
                RAdd(Run(inv_slots, rebalancing, compounding, yi).es.bal[i],
                     IF rebalancing = "start_of_year"
                     THEN inv_slots[i].annual_contrib ELSE Zero)
          /\ investment_income_before_tax' =
                RAdd(investment_income_before_tax,
                     apply_return(inv_balances[i], inv_slots[i].ret, compounding))
          /\ \A k \in 1..Len(inv_slots) : k # i => inv_balances'[k] = inv_balances[k]
    /\ pc \in {"loop", "settle"} => inv_balances' = inv_balances

\* C9: under start_of_year the contribution step before the returns takes
\* the total contribution from cash and adds each account's contribution to
\* its balance, and the step after the returns changes nothing; under
\* end_of_year it is the other way round.  The returns step of account i
\* computes its gain on the balance it finds: the balance the year started
\* with, plus the contribution under start_of_year only.  No other step
\* changes a balance by a contribution, and the total contribution is the
\* sum of the accounts' contributions in every year.
C9_ContributionOrdering == [][C9_Step]_vars

C9_Witness ==
    /\ pc = "settle"
    /\ yi >= 1
    /\ rebalancing = "start_of_year"
    /\ total_contrib # Zero
    /\ investment_income_before_tax # Zero
    /\ \E k \in 1..Len(inv_slots) :
          inv_slots[k].annual_contrib # Zero /\ inv_slots[k].ret # Zero

NetWorthBefore(k) ==
    IF k = 1 THEN RAdd(start_savings, RSum(Principals)) ELSE rows[k - 1].net_worth

C10_Accounting ==
    \A k \in 1..Len(rows) :
        RSub(rows[k].net_worth, NetWorthBefore(k)) =
            RSub(RAdd(RSub(RSub(RSub(rows[k].gross_income, rows[k].salary_tax),
                                rows[k].other_income_tax),
                           rows[k].total_expenses),
                      rows[k].investment_gain_before_tax),
                 RMul(R(2, 1), rows[k].investment_tax_paid))

C10_ContributionNeutral ==
    (pc = "contrib_start" \/ (pc = "returns" /\ i > Len(inv_slots))) =>
        RAdd(cash', RSum(inv_balances')) = RAdd(cash, RSum(inv_balances))

\* C10: the net worth of a year less the net worth of the year before (the
\* starting cash plus the principals, for the first year) is gross income
\* - salary tax - other-income tax - expenses + investment gain before tax
\* - 2 * investment tax paid; a contribution step moves cash into the
\* accounts without changing their sum.
C10_NetWorthChange == []C10_Accounting /\ [][C10_ContributionNeutral]_vars

C10_Witness ==
    /\ pc = "done"
    /\ Len(rows) >= 2
    /\ \A k \in 1..Len(rows) : rows[k].investment_tax_paid # Zero
    /\ \E k \in 1..Len(inv_slots) : inv_slots[k].annual_contrib # Zero

====
